---- MODULE Spec2Model ----
(***************************************************************************)
(* Model of src/app.py (NumInfo): the field mapper auto_map_fields, the    *)
(* result normalizer handle_multiple_results, the lookup client            *)
(* (mock_lookup / call_api) and the module-level script that Streamlit     *)
(* re-runs on every user interaction.                                      *)
(*                                                                         *)
(* Python / JSON values are tagged records [t |-> tag, v |-> content]:     *)
(*   "str"  v is the text           "num"  v is the integer                *)
(*   "null" None                    "dict" v is a function key -> value    *)
(*   "list" v is a sequence of values                                      *)
(* A dict is modelled as a function: key order is not observable by any of *)
(* the operations modelled here.                                           *)
(***************************************************************************)
EXTENDS Integers, Sequences, FiniteSets, TLC

VARIABLES
    API_KEY,          \* os.getenv("API_KEY", None): <<>> is None, <<s>> the string s
    str_hash,         \* this process's hash() of each non-empty term
    use_mock,         \* sidebar checkbox "Mock Data"
    auto_map,         \* sidebar checkbox "Auto-map Fields"
    term,             \* text input
    lookup,           \* the button: TRUE only in the run its click triggers
    pc,               \* position of the script run
    requests_issued,  \* calls of requests.get made by the current run
    exc,              \* exception caught by the try at lines 115-127, <<>> if none
    raw_result,       \* line 117/120/123/126
    status,           \* <<>> is None, <<n>> the status code n
    status_info,      \* what st.info shows at line 129
    message,          \* st.error text of the run, "" if none
    results,          \* line 131
    fault,            \* exception that left the script run uncaught, "none" if none
    csv,              \* outcome of the export block, lines 157-162
    data,             \* argument of a direct call of auto_map_fields
    mapped,           \* its return value
    called            \* whether that call has returned

appVars == <<API_KEY, str_hash, use_mock, auto_map, term, lookup, pc,
             requests_issued, exc, raw_result, status, status_info, message,
             results, fault, csv>>
mapVars == <<data, mapped, called>>
vars == <<API_KEY, str_hash, use_mock, auto_map, term, lookup, pc,
          requests_issued, exc, raw_result, status, status_info, message,
          results, fault, csv, data, mapped, called>>

----------------------------------------------------------------------------
(* Values *)

Str(s) == [t |-> "str", v |-> s]
Num(n) == [t |-> "num", v |-> n]
Dict(f) == [t |-> "dict", v |-> f]
List(l) == [t |-> "list", v |-> l]
Null == [t |-> "null", v |-> "None"]
Unset == [t |-> "unset", v |-> "unset"]
None == << >>
EmptyMap == << >>

\* Python truth value of a value (the test `data[k]` at line 93).
Truthy(x) ==
    CASE x.t = "str" -> x.v # ""
      [] x.t = "num" -> x.v # 0
      [] x.t = "null" -> FALSE
      [] x.t = "dict" -> DOMAIN x.v # {}
      [] x.t = "list" -> Len(x.v) > 0
      [] OTHER -> FALSE

Range(s) == {s[i] : i \in DOMAIN s}

----------------------------------------------------------------------------
(* auto_map_fields, lines 81-99 *)

\* The alias table with `phone` listed ahead of `mobile`.
mapping_PhoneFirst ==
    [name    |-> <<"name", "fullname", "user">>,
     mobile  |-> <<"phone", "mobile", "number">>,
     email   |-> <<"email", "mail">>,
     address |-> <<"address", "location">>]

\* The alias table, lines 84-89.
mapping ==
    [name    |-> <<"name", "fullname", "user">>,
     mobile  |-> <<"mobile", "phone", "number">>,
     email   |-> <<"email", "mail">>,
     address |-> <<"address", "location">>]

\* [key for keys in mapping.values() for key in keys], line 96.
AliasKeys == UNION {Range(mapping[s]) : s \in DOMAIN mapping}

\* The inner loop with the truth test `and data[k]` left out.
RECURSIVE ScanAliases_PresenceOnly(_, _, _)
ScanAliases_PresenceOnly(d, keys, i) ==
    IF i > Len(keys) THEN 0
    ELSE IF keys[i] \in DOMAIN d THEN i
    ELSE ScanAliases_PresenceOnly(d, keys, i + 1)

\* The inner loop, lines 92-95: index of the alias at which the loop breaks,
\* 0 when it runs to the end without assigning.
RECURSIVE ScanAliases(_, _, _)
ScanAliases(d, keys, i) ==
    IF i > Len(keys) THEN 0
    ELSE IF keys[i] \in DOMAIN d /\ Truthy(d[keys[i]]) THEN i
    ELSE ScanAliases(d, keys, i + 1)

\* The outer loop looking only at the first alias of every slot.
MappedSlots_FirstAliasOnly(d) ==
    [s \in {o \in DOMAIN mapping :
                mapping[o][1] \in DOMAIN d /\ Truthy(d[mapping[o][1]])} |->
        d[mapping[s][1]]]

\* The dict `mapped` after the outer loop, lines 90-95.
MappedSlots(d) ==
    [s \in {o \in DOMAIN mapping : ScanAliases(d, mapping[o], 1) # 0} |->
        d[mapping[s][ScanAliases(d, mapping[s], 1)]]]

\* `others` leaving out only the aliases that were selected for a slot.
Others_SelectedOnly(d) ==
    [k \in {j \in DOMAIN d :
                \A o \in DOMAIN mapping :
                    \/ ScanAliases(d, mapping[o], 1) = 0
                    \/ mapping[o][ScanAliases(d, mapping[o], 1)] # j} |-> d[k]]

\* The dict `others`, line 96.
Others(d) == [k \in {j \in DOMAIN d : j \notin AliasKeys} |-> d[k]]

\* The unrecognized fields merged into the top level instead of nested.
WithOthers_Flat(m, others) == m @@ others

\* Lines 97-99.
WithOthers(m, others) ==
    IF DOMAIN others # {} THEN m @@ ("others" :> Dict(others)) ELSE m

auto_map_fields(x) ==
    IF x.t # "dict" THEN Dict("raw" :> x)
    ELSE Dict(WithOthers(MappedSlots(x.v), Others(x.v)))

----------------------------------------------------------------------------
(* handle_multiple_results, lines 101-107 *)

\* `auto_map_fields(item) if auto_map else item`.
MapItem(item, am) == IF am THEN auto_map_fields(item) ELSE item

\* The dispatch without its `results` branch.
handle_multiple_results_NoWrapper(result, am) ==
    IF result.t = "list"
    THEN List([i \in 1..Len(result.v) |-> MapItem(result.v[i], am)])
    ELSE List(<<MapItem(result, am)>>)

\* The returned Python list, as a list value; `am` is the global auto_map.
handle_multiple_results(result, am) ==
    IF result.t = "list"
    THEN List([i \in 1..Len(result.v) |-> MapItem(result.v[i], am)])
    ELSE IF /\ result.t = "dict"
            /\ "results" \in DOMAIN result.v
            /\ result.v["results"].t = "list"
    THEN List([i \in 1..Len(result.v["results"].v) |->
                  MapItem(result.v["results"].v[i], am)])
    ELSE List(<<MapItem(result, am)>>)

----------------------------------------------------------------------------
(* Lookup client, lines 63-79 *)

\* mock_lookup, lines 63-69; h is hash(term_value).
mock_lookup(term_value, h) ==
    LET samples ==
          <<Dict([name |-> Str("Rahul Kumar"), mobile |-> Str(term_value),
                  email |-> Str("rahul.k@example.com")]),
            Dict([name |-> Str("Priya Sharma"), mobile |-> Str(term_value),
                  email |-> Str("priya.sh@example.com")]),
            Dict([name |-> Str("Unknown"), mobile |-> Str(term_value),
                  note |-> Str("No data")])>>
    IN  samples[(h % Len(samples)) + 1]

\* What one call of requests.get followed by response.json() can come to:
\* a response whose body parses as JSON, a response whose body does not, a
\* requests.RequestException (with or without a response attached) or any
\* other exception.
MaxLen == 2

Elems ==
    {Str("hello"), Str("name"), Null,
     Dict("phone" :> Str("123")),
     Dict(("name" :> Str("A")) @@ ("note" :> Str("x"))),
     List(<< >>)}
ItemLists == UNION {[1..n -> Elems] : n \in 0..MaxLen}
Payloads ==
    Elems \cup {List(l) : l \in ItemLists}
          \cup {Dict("results" :> List(l)) : l \in ItemLists}
          \cup {Dict("results" :> Str("none")),
                Dict(("results" :> Null) @@ ("phone" :> Str("123")))}
StatusCodes == {200, 404}
Bodies == {"<html>"}
Messages == {"timed out"}

JsonResponse(p, code) == [kind |-> "json", status_code |-> code, body |-> p]
TextResponse(b, code) == [kind |-> "text", status_code |-> code, body |-> Str(b)]
RequestException(m, r) == [kind |-> "RequestException", msg |-> m, response |-> r]
OtherException(m) == [kind |-> "Exception", msg |-> m, response |-> None]

Responses ==
    {JsonResponse(p, c) : p \in Payloads, c \in StatusCodes}
        \cup {TextResponse(b, c) : b \in Bodies, c \in StatusCodes}
Exceptions ==
    {RequestException(m, r) : m \in Messages,
                              r \in {None} \cup {<<c>> : c \in StatusCodes}}
        \cup {OtherException(m) : m \in Messages}

\* call_api lines 74-79, given the response requests.get returned.
call_api_data(response) ==
    IF response.kind = "json" THEN response.body
    ELSE Dict("text" :> response.body)

\* getattr(e.response, "status_code", None) at line 124 with the response
\* left out of account.
ExceptStatus_NoResponse(e) == None

\* The status assigned by the except clauses, lines 124 and 127.
ExceptStatus(e) ==
    IF e.kind = "RequestException" THEN e.response ELSE None

\* f"Status: {status or 'N/A'}", line 129.
StatusInfo(st) == IF st = None \/ st[1] = 0 THEN Str("N/A") ELSE Num(st[1])

----------------------------------------------------------------------------
(* Results tab, lines 134-153 *)

SlotKeys == <<"name", "mobile", "email", "address">>

\* `key in display` for a str display: substring test. Over the strings of
\* Elems a key occurs in a string exactly when it is that string.
InStr(key, s) == key = s

\* The exception the card loop and the "others" block raise for one display
\* value, "none" if they run through.
DisplayFault(display) ==
    CASE display.t = "dict" -> "none"
      [] display.t = "str" ->
            IF \E i \in DOMAIN SlotKeys : InStr(SlotKeys[i], display.v)
            THEN "AttributeError"
            ELSE IF InStr("others", display.v) THEN "TypeError" ELSE "none"
      [] display.t = "list" ->
            IF \E i \in DOMAIN SlotKeys : Str(SlotKeys[i]) \in Range(display.v)
            THEN "AttributeError"
            ELSE IF Str("others") \in Range(display.v) THEN "TypeError" ELSE "none"
      [] OTHER -> "TypeError"

\* Fault of the first display value that raises, scanning rs from position i.
RECURSIVE FirstFault(_, _)
FirstFault(rs, i) ==
    IF i > Len(rs) THEN "none"
    ELSE IF DisplayFault(rs[i]) # "none" THEN DisplayFault(rs[i])
    ELSE FirstFault(rs, i + 1)

\* Lines 135-153.
RenderFault(rs) ==
    IF Len(rs) > 1 THEN FirstFault(rs, 1)
    ELSE IF Len(rs) = 0 THEN "IndexError"
    ELSE DisplayFault(rs[1])

----------------------------------------------------------------------------
(* The script *)

Terms == {"", "123"}
ApiKeys == {None, <<"">>, <<"secret">>}
HashValues == -1..1

KeyTruthy(k) == k # None /\ k[1] # ""

Init ==
    /\ API_KEY \in ApiKeys
    /\ str_hash \in [Terms \ {""} -> HashValues]
    /\ use_mock = FALSE
    /\ auto_map = TRUE
    /\ term = ""
    /\ lookup = FALSE
    /\ pc = "idle"
    /\ requests_issued = 0
    /\ exc = None
    /\ raw_result = Unset
    /\ status = None
    /\ status_info = Unset
    /\ message = ""
    /\ results = << >>
    /\ fault = "none"
    /\ csv = "none"
    /\ data = Null
    /\ mapped = Unset
    /\ called = FALSE

\* A user interaction: the widgets take their new values and Streamlit runs
\* the script from the top (lines 16-27, 56-60).
Rerun ==
    /\ pc \in {"idle", "stopped", "done"}
    /\ use_mock' \in BOOLEAN
    /\ auto_map' \in BOOLEAN
    /\ term' \in Terms
    /\ lookup' \in BOOLEAN
    /\ pc' = "sidebar"
    /\ requests_issued' = 0
    /\ exc' = None
    /\ raw_result' = Unset
    /\ status' = None
    /\ status_info' = Unset
    /\ message' = ""
    /\ results' = << >>
    /\ fault' = "none"
    /\ csv' = "none"
    /\ UNCHANGED <<API_KEY, str_hash>>
    /\ UNCHANGED mapVars

\* The credential gate with the st.stop() missing.
CredentialGate_NoStop ==
    /\ pc = "sidebar"
    /\ IF ~KeyTruthy(API_KEY) /\ ~use_mock
       THEN message' = "Set API_KEY in Render Environment"
       ELSE message' = message
    /\ pc' = "lookup"
    /\ UNCHANGED <<API_KEY, str_hash, use_mock, auto_map, term, lookup,
                   requests_issued, exc, raw_result, status, status_info,
                   results, fault, csv>>
    /\ UNCHANGED mapVars

\* Lines 29-31.
CredentialGate ==
    /\ pc = "sidebar"
    /\ IF ~KeyTruthy(API_KEY) /\ ~use_mock
       THEN /\ message' = "Set API_KEY in Render Environment"
            /\ pc' = "stopped"
       ELSE /\ message' = message
            /\ pc' = "lookup"
    /\ UNCHANGED <<API_KEY, str_hash, use_mock, auto_map, term, lookup,
                   requests_issued, exc, raw_result, status, status_info,
                   results, fault, csv>>
    /\ UNCHANGED mapVars

\* Line 110 false: the run was not triggered by the button.
NoLookup ==
    /\ pc = "lookup"
    /\ ~lookup
    /\ pc' = "done"
    /\ UNCHANGED <<API_KEY, str_hash, use_mock, auto_map, term, lookup,
                   requests_issued, exc, raw_result, status, status_info,
                   message, results, fault, csv>>
    /\ UNCHANGED mapVars

\* Lines 111-112.
EmptyTerm ==
    /\ pc = "lookup"
    /\ lookup
    /\ term = ""
    /\ message' = "Enter a search term"
    /\ pc' = "done"
    /\ UNCHANGED <<API_KEY, str_hash, use_mock, auto_map, term, lookup,
                   requests_issued, exc, raw_result, status, status_info,
                   results, fault, csv>>
    /\ UNCHANGED mapVars

\* Lines 116-118 and 129.
FetchMock ==
    /\ pc = "lookup"
    /\ lookup
    /\ term # ""
    /\ use_mock
    /\ raw_result' = mock_lookup(term, str_hash[term])
    /\ status' = <<200>>
    /\ status_info' = StatusInfo(status')
    /\ pc' = "normalize"
    /\ UNCHANGED <<API_KEY, str_hash, use_mock, auto_map, term, lookup,
                   requests_issued, exc, message, results, fault, csv>>
    /\ UNCHANGED mapVars

\* Lines 120 and 129: call_api returns.
FetchApi ==
    /\ pc = "lookup"
    /\ lookup
    /\ term # ""
    /\ ~use_mock
    /\ requests_issued' = requests_issued + 1
    /\ \E response \in Responses :
          /\ raw_result' = call_api_data(response)
          /\ status' = <<response.status_code>>
    /\ status_info' = StatusInfo(status')
    /\ pc' = "normalize"
    /\ UNCHANGED <<API_KEY, str_hash, use_mock, auto_map, term, lookup,
                   exc, message, results, fault, csv>>
    /\ UNCHANGED mapVars

\* Lines 120-129: call_api raises and an except clause takes over.
FetchFails ==
    /\ pc = "lookup"
    /\ lookup
    /\ term # ""
    /\ ~use_mock
    /\ requests_issued' = requests_issued + 1
    /\ \E e \in Exceptions :
          /\ exc' = <<e>>
          /\ raw_result' = Dict("error" :> Str(e.msg))
          /\ status' = ExceptStatus(e)
    /\ status_info' = StatusInfo(status')
    /\ pc' = "normalize"
    /\ UNCHANGED <<API_KEY, str_hash, use_mock, auto_map, term, lookup,
                   message, results, fault, csv>>
    /\ UNCHANGED mapVars

\* Line 131.
Normalize ==
    /\ pc = "normalize"
    /\ results' = handle_multiple_results(raw_result, auto_map).v
    /\ pc' = "render"
    /\ UNCHANGED <<API_KEY, str_hash, use_mock, auto_map, term, lookup,
                   requests_issued, exc, raw_result, status, status_info,
                   message, fault, csv>>
    /\ UNCHANGED mapVars

\* Lines 133-153: an exception raised here ends the script run.
Render ==
    /\ pc = "render"
    /\ fault' = RenderFault(results)
    /\ pc' = IF fault' = "none" THEN "export" ELSE "done"
    /\ UNCHANGED <<API_KEY, str_hash, use_mock, auto_map, term, lookup,
                   requests_issued, exc, raw_result, status, status_info,
                   message, results, csv>>
    /\ UNCHANGED mapVars

\* Lines 155-162: pandas either tabulates the results or raises, and the
\* except clause turns that into a warning.
Export ==
    /\ pc = "export"
    /\ csv' \in {"download", "warning"}
    /\ pc' = "done"
    /\ UNCHANGED <<API_KEY, str_hash, use_mock, auto_map, term, lookup,
                   requests_issued, exc, raw_result, status, status_info,
                   message, results, fault>>
    /\ UNCHANGED mapVars

Next ==
    \/ Rerun
    \/ CredentialGate
    \/ NoLookup
    \/ EmptyTerm
    \/ FetchMock
    \/ FetchApi
    \/ FetchFails
    \/ Normalize
    \/ Render
    \/ Export

Spec == Init /\ [][Next]_vars

----------------------------------------------------------------------------
(* Properties of the script, checked under Spec *)

\* Line 131 has run in the current script run.
Normalized == pc \in {"render", "export"} \/ (pc = "done" /\ raw_result # Unset)

\* The record the normalizer makes of one selected item.
Derived(item) == IF auto_map THEN auto_map_fields(item) ELSE item

SameLengthEachDerived(items) ==
    /\ Len(results) = Len(items)
    /\ \A i \in 1..Len(items) : results[i] = Derived(items[i])

\* C1: the normalizer dispatches on the payload shape, first match wins:
\* a list gives one output element per element, in order; otherwise a
\* mapping whose `results` is a list gives one output element per element of
\* that list; otherwise the output has exactly one element, derived from the
\* whole payload. With autoMap on "hello" gives [{"raw": "hello"}] and
\* {"results": [{"phone": "123"}]} gives [{"mobile": "123"}].
C1_DispatchByShape ==
    Normalized =>
        /\ IF raw_result.t = "list"
           THEN SameLengthEachDerived(raw_result.v)
           ELSE IF raw_result.t = "dict" /\ "results" \in DOMAIN raw_result.v
           THEN IF raw_result.v["results"].t = "list"
                THEN SameLengthEachDerived(raw_result.v["results"].v)
                ELSE Len(results) = 1 /\ results[1] = Derived(raw_result)
           ELSE Len(results) = 1 /\ results[1] = Derived(raw_result)
        /\ (auto_map /\ raw_result = Str("hello")) =>
              results = <<Dict("raw" :> Str("hello"))>>
        /\ (auto_map /\ raw_result = Dict("results" :> List(<<Dict("phone" :> Str("123"))>>))) =>
              results = <<Dict("mobile" :> Str("123"))>>

\* A wrapper payload holding two items, normalized with autoMap on.
C1_Witness ==
    /\ Normalized
    /\ auto_map
    /\ raw_result = Dict("results" :> List(<<Dict("phone" :> Str("123")), Str("hello")>>))
    /\ results = <<Dict("mobile" :> Str("123")), Dict("raw" :> Str("hello"))>>

\* C4: after the credential check, no lookup action ends in an uncaught
\* exception, whatever payload the lookup client returns.
C4_NoUncaughtFault == fault = "none"

\* C5: when the outbound query raises, the action does not raise; the raw
\* payload is a mapping with key `error` holding the message; the status is
\* the failed response's status code when the exception carries a response
\* and None (shown as N/A) otherwise.
C5_FailureBecomesErrorRecord ==
    exc # None =>
        /\ fault = "none"
        /\ raw_result.t = "dict"
        /\ "error" \in DOMAIN raw_result.v
        /\ raw_result.v["error"] = Str(exc[1].msg)
        /\ IF exc[1].response = None
           THEN status = None /\ status_info = Str("N/A")
           ELSE /\ status = <<exc[1].response[1]>>
                /\ status_info = Num(exc[1].response[1])

\* A run whose request failed with a response attached and that went on to
\* the end of the script.
C5_Witness ==
    /\ exc # None
    /\ exc[1].response = <<404>>
    /\ status = <<404>>
    /\ pc = "done"
    /\ csv # "none"

\* C6: a script run issues exactly one outbound request when the button was
\* clicked with a non-empty term, mock mode off and the credential present,
\* and none in every other case; it never issues more than one.
C6_RequestCount ==
    /\ requests_issued <= 1
    /\ pc \in {"stopped", "done"} =>
          requests_issued =
              IF /\ lookup
                 /\ term # ""
                 /\ ~use_mock
                 /\ API_KEY \notin {None, <<"">>}
              THEN 1 ELSE 0

C6_Witness ==
    /\ pc = "done"
    /\ lookup
    /\ ~use_mock
    /\ requests_issued = 1

\* C10: with autoMap off every element of the output is a mapping: a
\* selected record that is a mapping is passed through unchanged and one
\* that is not is wrapped.
C10_AlwaysMappings ==
    (Normalized /\ ~auto_map) =>
        \A i \in 1..Len(results) : results[i].t = "dict"

----------------------------------------------------------------------------
(* Direct calls of auto_map_fields on bounded inputs *)

MaxKeys == 3

RecordKeys == AliasKeys \cup {"note", "id"}
FieldValues == {Str(""), Str("A"), Str("B"), Num(0), Null}

KeySets == {S \in SUBSET RecordKeys : Cardinality(S) <= MaxKeys}
RawRecords == UNION {[S -> FieldValues] : S \in KeySets}
MapInputs == {Dict(f) : f \in RawRecords} \cup {Str("hello"), Null, List(<<>>)}

AppIdle ==
    /\ API_KEY = None
    /\ str_hash = EmptyMap
    /\ use_mock = FALSE
    /\ auto_map = TRUE
    /\ term = ""
    /\ lookup = FALSE
    /\ pc = "idle"
    /\ requests_issued = 0
    /\ exc = None
    /\ raw_result = Unset
    /\ status = None
    /\ status_info = Unset
    /\ message = ""
    /\ results = << >>
    /\ fault = "none"
    /\ csv = "none"

InitMap ==
    /\ AppIdle
    /\ data \in MapInputs
    /\ mapped = Unset
    /\ called = FALSE

CallAutoMap ==
    /\ ~called
    /\ mapped' = auto_map_fields(data)
    /\ called' = TRUE
    /\ UNCHANGED data
    /\ UNCHANGED appVars

NextMap == CallAutoMap

SpecMap == InitMap /\ [][NextMap]_vars

----------------------------------------------------------------------------
(* Properties of auto_map_fields, checked under SpecMap *)

\* The values Python treats as false.
FalsyValues == {Str(""), Num(0), Null, Dict(EmptyMap), List(<< >>)}

Min(S) == CHOOSE m \in S : \A n \in S : m <= n

MappedCall == called /\ data.t = "dict"

\* Positions in `keys` of the aliases present in record d with a true value.
Hits(d, keys) ==
    {i \in 1..Len(keys) : keys[i] \in DOMAIN d /\ d[keys[i]] \notin FalsyValues}

\* C2: for a mapping input, every canonical slot holds the value of the
\* first alias, in listed order, that is present with a truthy value, and
\* the slot is absent when no alias is present with a truthy value; the
\* call returns a mapping (no error).
C2_FirstTruthyAlias ==
    MappedCall =>
        /\ mapped.t = "dict"
        /\ \A slot \in {"name", "mobile", "email", "address"} :
              LET keys == CASE slot = "name" -> <<"name", "fullname", "user">>
                            [] slot = "mobile" -> <<"mobile", "phone", "number">>
                            [] slot = "email" -> <<"email", "mail">>
                            [] slot = "address" -> <<"address", "location">>
              IN  IF Hits(data.v, keys) = {}
                  THEN slot \notin DOMAIN mapped.v
                  ELSE /\ slot \in DOMAIN mapped.v
                       /\ mapped.v[slot] = data.v[keys[Min(Hits(data.v, keys))]]

\* A call where the first alias is present but falsy and two later aliases
\* are truthy with different values: the second alias is the one selected.
C2_Witness ==
    /\ MappedCall
    /\ {"mobile", "phone", "number"} \subseteq DOMAIN data.v
    /\ data.v["mobile"] = Num(0)
    /\ data.v["phone"] = Str("A")
    /\ data.v["number"] = Str("B")
    /\ mapped.v["mobile"] = Str("A")

TenAliases == {"name", "fullname", "user", "mobile", "phone", "number",
               "email", "mail", "address", "location"}

\* C3: for a mapping input, `others` is the input restricted to the keys
\* in no alias list, values unmodified; no alias key appears in it, used or
\* not; with no non-alias key in the input the `others` key is absent.
C3_OthersIsNonAliasRestriction ==
    MappedCall =>
        LET rest == DOMAIN data.v \ TenAliases
        IN  IF rest = {}
            THEN "others" \notin DOMAIN mapped.v
            ELSE /\ "others" \in DOMAIN mapped.v
                 /\ mapped.v["others"].t = "dict"
                 /\ DOMAIN mapped.v["others"].v = rest
                 /\ \A k \in rest : mapped.v["others"].v[k] = data.v[k]

\* A call whose input has a selected alias, an alias that was not selected
\* and a non-alias key.
C3_Witness ==
    /\ MappedCall
    /\ DOMAIN data.v = {"mobile", "phone", "note"}
    /\ data.v["mobile"] = Str("A")
    /\ data.v["phone"] = Str("B")
    /\ mapped.v["others"] = Dict("note" :> data.v["note"])

\* C7 as stated: with both `mobile` and `phone` in the input, the output's
\* `mobile` equals the input's `mobile` value.
C7_Original ==
    (MappedCall /\ {"mobile", "phone"} \subseteq DOMAIN data.v) =>
        /\ "mobile" \in DOMAIN mapped.v
        /\ mapped.v["mobile"] = data.v["mobile"]

\* C7 amended: with both `mobile` and `phone` in the input and the value of
\* `mobile` truthy, the output's `mobile` equals the input's `mobile` value.
C7_MobileBeatsPhoneWhenTruthy ==
    (/\ MappedCall
     /\ {"mobile", "phone"} \subseteq DOMAIN data.v
     /\ data.v["mobile"] \notin FalsyValues) =>
        /\ "mobile" \in DOMAIN mapped.v
        /\ mapped.v["mobile"] = data.v["mobile"]

C7_Witness ==
    /\ MappedCall
    /\ {"mobile", "phone"} \subseteq DOMAIN data.v
    /\ data.v["mobile"] = Str("B")
    /\ data.v["phone"] = Str("A")
    /\ mapped.v["mobile"] = Str("B")

\* C8 as stated: with `phone` but not `mobile` in the input, the output's
\* `mobile` equals the input's `phone` value.
C8_Original ==
    (MappedCall /\ "phone" \in DOMAIN data.v /\ "mobile" \notin DOMAIN data.v) =>
        /\ "mobile" \in DOMAIN mapped.v
        /\ mapped.v["mobile"] = data.v["phone"]

\* C8 amended: with `phone` holding a truthy value and `mobile` not in the
\* input, the output's `mobile` equals the input's `phone` value.
C8_PhoneFillsMobileWhenTruthy ==
    (/\ MappedCall
     /\ "phone" \in DOMAIN data.v
     /\ "mobile" \notin DOMAIN data.v
     /\ data.v["phone"] \notin FalsyValues) =>
        /\ "mobile" \in DOMAIN mapped.v
        /\ mapped.v["mobile"] = data.v["phone"]

C8_Witness ==
    /\ MappedCall
    /\ "phone" \in DOMAIN data.v
    /\ "mobile" \notin DOMAIN data.v
    /\ "number" \in DOMAIN data.v
    /\ data.v["phone"] = Str("A")
    /\ data.v["number"] = Str("B")
    /\ mapped.v["mobile"] = Str("A")

\* C9 as stated: an input with none of the alias keys gives an output whose
\* only key is `others`, holding the entire input.
C9_Original ==
    (MappedCall /\ DOMAIN data.v \cap TenAliases = {}) =>
        /\ DOMAIN mapped.v = {"others"}
        /\ mapped.v["others"] = data

\* C9 amended: a non-empty input with none of the alias keys gives an
\* output whose only key is `others`, holding the entire input.
C9_OnlyOthersWhenNonEmpty ==
    (/\ MappedCall
     /\ DOMAIN data.v \cap TenAliases = {}
     /\ DOMAIN data.v # {}) =>
        /\ DOMAIN mapped.v = {"others"}
        /\ mapped.v["others"] = data

C9_Witness ==
    /\ MappedCall
    /\ DOMAIN data.v = {"note", "id"}
    /\ DOMAIN mapped.v = {"others"}
    /\ mapped.v["others"] = data

====
